---- MODULE Spec2Model ----
(***************************************************************************)
(* A model of main.py: the two background workers (TranscriptListWorker,   *)
(* TranscriptWorker) and the MainWindow handlers that start them and       *)
(* consume their signals.                                                   *)
(*                                                                         *)
(* A Python str is a sequence of one-character strings, so that slicing,   *)
(* `in`, split and the per-character filter of sanitize_filename are       *)
(* computed the way the code computes them.                                *)
(***************************************************************************)
EXTENDS Integers, Sequences, FiniteSets, Bags, TLC

VARIABLES
    check_button,       \* check_button.isEnabled()
    convert_button,     \* convert_button.isEnabled()
    status_label,       \* status_label.text()
    transcript_list,    \* self.transcript_list
    language_combo,     \* the items of language_combo
    translation_combo,  \* the items of translation_combo
    dialogs,            \* the QMessageBox dialogs open (each is modal)
    list_worker,        \* the TranscriptListWorker threads not yet finished with
    worker,             \* the TranscriptWorker threads not yet finished with
    job,                \* the call under study when a worker is run on its own
    out                 \* what the runs of job did, in order

vars == <<check_button, convert_button, status_label, transcript_list,
          language_combo, translation_combo, dialogs, list_worker, worker, job, out>>

window == <<check_button, convert_button, status_label, transcript_list,
            language_combo, translation_combo, dialogs, list_worker, worker>>

(***************************************************************************)
(* str primitives                                                          *)
(***************************************************************************)
\* F(v), with v evaluated once and F applied to its value
At(v, F(_)) == CHOOSE r \in { F(u) : u \in {v} } : TRUE

Min(a, b) == IF a < b THEN a ELSE b

\* s[i:] with a 0-based i >= 0
SliceFrom(s, i) == SubSeq(s, i + 1, Len(s))

\* s[:i] with a 0-based i >= 0
SliceTo(s, i) == SubSeq(s, 1, Min(i, Len(s)))

\* the least and the greatest member of a non-empty set of integers
Least(S)    == CHOOSE i \in S : \A j \in S : i <= j
Greatest(S) == CHOOSE i \in S : \A j \in S : i >= j

\* the k-th member of a set of integers, in increasing order
Nth(S, k) == CHOOSE i \in S : Cardinality({j \in S : j <= i}) = k

\* the 1-based positions of the character c in s
Positions(s, c) == {i \in 1..Len(s) : s[i] = c}

\* s.find(c): the 0-based index of the first c in s, -1 when there is none
Find(s, c) == IF Positions(s, c) = {} THEN -1 ELSE Least(Positions(s, c)) - 1

\* s.rfind(c)
RFind(s, c) == IF Positions(s, c) = {} THEN -1 ELSE Greatest(Positions(s, c)) - 1

\* c in s, for a single character c
HasChar(s, c) == Positions(s, c) # {}

\* t in s, for a str t (substring test)
Contains(s, t) == \E i \in 0..(Len(s) - Len(t)) : SubSeq(s, i + 1, i + Len(t)) = t

\* the positions of s that hold no blank
NonBlank(s) == {i \in 1..Len(s) : s[i] # " "}

\* s.lstrip()
LStrip(s) == IF NonBlank(s) = {} THEN <<>> ELSE SubSeq(s, Least(NonBlank(s)), Len(s))

\* s.strip()
Strip(s) ==
    IF NonBlank(s) = {} THEN <<>> ELSE SubSeq(s, Least(NonBlank(s)), Greatest(NonBlank(s)))

\* the pieces of s between the positions cuts, which hold the separator
Pieces(s, cuts) ==
    [k \in 1..(Cardinality(cuts) + 1) |->
        SubSeq(s, IF k = 1 THEN 1 ELSE Nth(cuts, k - 1) + 1,
                  IF k = Cardinality(cuts) + 1 THEN Len(s) ELSE Nth(cuts, k) - 1)]

\* s.split(sep), for a character sep
Split(s, sep) == Pieces(s, Positions(s, sep))

\* s.split(sep, 1)
Split1(s, sep) ==
    IF Find(s, sep) < 0 THEN <<s>>
    ELSE <<SliceTo(s, Find(s, sep)), SliceFrom(s, Find(s, sep) + 1)>>

LowerLetters == <<"a","b","c","d","e","f","g","h","i","j","k","l","m",
                  "n","o","p","q","r","s","t","u","v","w","x","y","z">>
UpperLetters == <<"A","B","C","D","E","F","G","H","I","J","K","L","M",
                  "N","O","P","Q","R","S","T","U","V","W","X","Y","Z">>
Digits == <<"0","1","2","3","4","5","6","7","8","9">>

IsAlpha(c) == HasChar(LowerLetters, c) \/ HasChar(UpperLetters, c)

\* c.lower()
LowerChar(c) == IF HasChar(UpperLetters, c) THEN LowerLetters[Find(UpperLetters, c) + 1] ELSE c

\* s.lower()
Lower(s) == [i \in 1..Len(s) |-> LowerChar(s[i])]

(***************************************************************************)
(* urllib.parse as main.py uses it                                         *)
(***************************************************************************)
\* urllib.parse.scheme_chars
IsSchemeChar(c) ==
    IsAlpha(c) \/ HasChar(Digits, c) \/ c \in {"+", "-", "."}

\* urllib.parse.uses_params, restricted to the schemes the inputs can carry
UsesParams == { <<>>, <<"h","t","t","p">>, <<"h","t","t","p","s">>, <<"f","t","p">> }

\* the printable ASCII characters, 0x20 .. 0x7E, in code order (0x60, the grave
\* accent, is written GRAVE)
AsciiPrintable ==
    <<" ","!","\"","#","$","%","&","'","(",")","*","+",",","-",".","/">> \o Digits \o
    <<":",";","<","=",">","?","@">> \o UpperLetters \o
    <<"[","\\","]","^","_","GRAVE">> \o LowerLetters \o <<"{","|","}","~">>

HexDigits == <<"0","1","2","3","4","5","6","7","8","9","a","b","c","d","e","f">>
IsHex(c) == HasChar(HexDigits, LowerChar(c))
HexVal(c) == Find(HexDigits, LowerChar(c))

\* urllib.parse.unquote on escapes of printable ASCII; a malformed escape is
\* kept as it is
RECURSIVE unquote(_)
unquote(s) ==
    IF s = <<>> THEN <<>>
    ELSE IF Head(s) = "%" /\ Len(s) >= 3 /\ IsHex(s[2]) /\ IsHex(s[3])
              /\ 16 * HexVal(s[2]) + HexVal(s[3]) \in 32..126
         THEN <<AsciiPrintable[16 * HexVal(s[2]) + HexVal(s[3]) - 31]>> \o At(SliceFrom(s, 3), unquote)
         ELSE <<Head(s)>> \o At(Tail(s), unquote)

\* s.replace('+', ' ')
PlusToSpace(s) == [i \in 1..Len(s) |-> IF s[i] = "+" THEN " " ELSE s[i]]

\* the 0-based positions, from index 2 on, of the delimiters that end a netloc
DelimiterHits(rest) == { Find(rest, c) : c \in {"/", "?", "#"} } \ {-1}

\* the index _splitnetloc(url, 2) cuts at: the first of '/?#' from index 2
\* on, or len(url)
NetlocEnd(url) ==
    IF DelimiterHits(SliceFrom(url, 2)) = {} THEN Len(url)
    ELSE 2 + Least(DelimiterHits(SliceFrom(url, 2)))

\* urllib.parse._splitparams(url)[0]: the path without its last segment's
\* parameters, when url holds a ';'
splitparams(url, slash) ==
    IF slash >= 0 /\ Find(SliceFrom(url, slash), ";") < 0 THEN url
    ELSE IF slash >= 0 THEN SliceTo(url, slash + Find(SliceFrom(url, slash), ";"))
    ELSE SliceTo(url, Find(url, ";"))

\* urlparse, last step: the parameters are split off the path
urlparse_params(scheme, netloc, url, query) ==
    [raised |-> FALSE, exc |-> "", scheme |-> scheme, netloc |-> netloc,
     path   |-> IF scheme \in UsesParams /\ HasChar(url, ";")
                THEN splitparams(url, RFind(url, "/")) ELSE url,
     query  |-> query]

\* urlsplit: `if '?' in url: url, query = url.split('?', 1)`
urlparse_query(scheme, netloc, parts) ==
    urlparse_params(scheme, netloc, parts[1], IF Len(parts) = 2 THEN parts[2] ELSE <<>>)

\* urlsplit: the ValueError on a netloc with an unmatched bracket, then
\* `if '#' in url: url, fragment = url.split('#', 1)`
urlparse_fragment(scheme, netloc, url) ==
    IF HasChar(netloc, "[") # HasChar(netloc, "]")
    THEN [raised |-> TRUE, exc |-> "Invalid IPv6 URL", scheme |-> <<>>, netloc |-> <<>>,
          path |-> <<>>, query |-> <<>>]
    ELSE At(Split1(Split1(url, "#")[1], "?"),
            LAMBDA parts : urlparse_query(scheme, netloc, parts))

\* urlsplit: `if url[:2] == '//': netloc, url = _splitnetloc(url, 2)`
urlparse_netloc(scheme, url) ==
    IF SliceTo(url, 2) = <<"/", "/">>
    THEN At(NetlocEnd(url),
            LAMBDA end : urlparse_fragment(scheme, SubSeq(url, 3, end), SliceFrom(url, end)))
    ELSE urlparse_fragment(scheme, <<>>, url)

\* urlsplit: the scheme is what precedes the first ':' when that is a letter
\* followed by scheme characters
urlparse_scheme(url, colon) ==
    IF colon > 0 /\ IsAlpha(url[1]) /\ \A i \in 1..colon : IsSchemeChar(url[i])
    THEN At(<<Lower(SliceTo(url, colon)), SliceFrom(url, colon + 1)>>,
            LAMBDA t : urlparse_netloc(t[1], t[2]))
    ELSE urlparse_netloc(<<>>, url)

\* urlsplit, once the leading blanks are gone
urlparse_stripped(url) == At(Find(url, ":"), LAMBDA colon : urlparse_scheme(url, colon))

\* urlparse(youtube_url): the parts, or the ValueError urlsplit raises
urlparse(youtube_url) == At(LStrip(youtube_url), urlparse_stripped)

\* one field of a query, split at its first '='
NameValue(field) == Split1(field, "=")

\* parse_qsl keeps the fields of the form name=value with a value
HasValue(field) == Len(NameValue(field)) = 2 /\ Len(NameValue(field)[2]) > 0

\* the (name, value) pair of a field, decoded
Decoded(field) ==
    [name  |-> unquote(PlusToSpace(NameValue(field)[1])),
     value |-> unquote(PlusToSpace(NameValue(field)[2]))]

DecodedAll(fields) == [i \in 1..Len(fields) |-> Decoded(fields[i])]

\* parse_qsl(query): the (name, value) pairs, blank values dropped
parse_qsl(query) ==
    IF query = <<>> THEN <<>>
    ELSE At(SelectSeq(Split(query, "&"), HasValue), DecodedAll)

values_of(pairs) == [i \in 1..Len(pairs) |-> pairs[i].value]

\* parse_qs(query)[key]: the list of the values of key, in order (empty: KeyError)
parse_qs_get(query, key) ==
    At(SelectSeq(parse_qsl(query), LAMBDA p : p.name = key), values_of)

(***************************************************************************)
(* The outcome of a Python call: a str, None, or a raised exception whose  *)
(* str(e) is exc.                                                          *)
(***************************************************************************)
Value(v)   == [kind |-> "value", value |-> v,    exc |-> ""]
None       == [kind |-> "None",  value |-> <<>>, exc |-> ""]
Raise(msg) == [kind |-> "raise", value |-> <<>>, exc |-> msg]

\* Falsy, had the check been `video_id is None`
Falsy_only_None(r) == r.kind = "None"

\* `not video_id`: None and the empty str are falsy
Falsy(r) == r.kind = "None" \/ (r.kind = "value" /\ r.value = <<>>)

YOUTU_BE    == <<"y","o","u","t","u",".","b","e">>
YOUTUBE_COM == <<"y","o","u","t","u","b","e",".","c","o","m">>
SHORTS      == <<"s","h","o","r","t","s">>

\* parse_qs(parsed_url.query)['v'][0], or the KeyError
first_v(values) == IF values = <<>> THEN Raise("'v'") ELSE Value(values[1])

\* parsed_url.path.split('/')[-1]
last_part(parts) == Value(parts[Len(parts)])

\* TranscriptListWorker.get_video_id, once urlparse has returned
TLW_video_id_of(parsed_url) ==
    IF parsed_url.raised THEN Raise(parsed_url.exc)
    ELSE IF Contains(parsed_url.netloc, YOUTU_BE)
         THEN Value(SliceFrom(parsed_url.path, 1))
    ELSE IF Contains(parsed_url.netloc, YOUTUBE_COM)
         THEN IF Contains(parsed_url.path, SHORTS)
              THEN At(Split(parsed_url.path, "/"), last_part)
              ELSE At(parse_qs_get(parsed_url.query, <<"v">>), first_v)
    ELSE None

\* TranscriptListWorker.get_video_id
TLW_get_video_id(youtube_url) == At(urlparse(youtube_url), TLW_video_id_of)

\* TW_video_id_of, had the short-link branch returned parsed_url.path whole
TW_video_id_of_whole_path(parsed_url) ==
    IF parsed_url.raised THEN Raise(parsed_url.exc)
    ELSE IF Contains(parsed_url.netloc, YOUTU_BE)
         THEN Value(parsed_url.path)
    ELSE IF Contains(parsed_url.netloc, YOUTUBE_COM)
         THEN IF Contains(parsed_url.path, SHORTS)
              THEN At(Split(parsed_url.path, "/"), last_part)
              ELSE At(parse_qs_get(parsed_url.query, <<"v">>), first_v)
    ELSE None

\* TranscriptWorker.get_video_id, once urlparse has returned
TW_video_id_of(parsed_url) ==
    IF parsed_url.raised THEN Raise(parsed_url.exc)
    ELSE IF Contains(parsed_url.netloc, YOUTU_BE)
         THEN Value(SliceFrom(parsed_url.path, 1))
    ELSE IF Contains(parsed_url.netloc, YOUTUBE_COM)
         THEN IF Contains(parsed_url.path, SHORTS)
              THEN At(Split(parsed_url.path, "/"), last_part)
              ELSE At(parse_qs_get(parsed_url.query, <<"v">>), first_v)
    ELSE None

\* TranscriptWorker.get_video_id
TW_get_video_id(youtube_url) == At(urlparse(youtube_url), TW_video_id_of)

\* invalid_chars in TranscriptWorker.sanitize_filename
invalid_chars == <<"<", ">", ":", "\"", "/", "\\", "|", "?", "*">>

\* the length filename[:50] keeps
FilenameLimit == 50

\* ''.join(char for char in title if char not in invalid_chars)
JoinValid(title) == SelectSeq(title, LAMBDA char : ~HasChar(invalid_chars, char))

\* sanitize_filename, had it cut the title before removing the characters
sanitize_filename_cut_first(title) == At(SliceTo(title, FilenameLimit), JoinValid)

\* TranscriptWorker.sanitize_filename
sanitize_filename(title) == At(JoinValid(title), LAMBDA filename : SliceTo(filename, FilenameLimit))

(***************************************************************************)
(* Signals, and what a worker's run() leaves behind                        *)
(***************************************************************************)
\* self.finished.emit(transcript_list) of TranscriptListWorker
FinishedList(tracks) ==
    [signal |-> "finished", transcript_list |-> tracks, filename |-> <<>>, message |-> ""]

\* self.finished.emit(filename) of TranscriptWorker
FinishedFile(filename) ==
    [signal |-> "finished", transcript_list |-> <<>>, filename |-> filename, message |-> ""]

\* self.error.emit(message)
Error(message) ==
    [signal |-> "error", transcript_list |-> <<>>, filename |-> <<>>, message |-> message]

NO_VIDEO_ID == "Could not extract video ID from URL"

\* One call a worker makes outside the process: the provider, the oEmbed
\* endpoint or the file system.
Call(api, arg, languages) == [api |-> api, arg |-> arg, languages |-> languages]

\* What run() did: the signals it emitted, the outside calls it made and the
\* files it wrote, each in order.
Ran(signals, calls, files) == [signals |-> signals, calls |-> calls, files |-> files]

\* the same, with what `self.get_video_id(self.url)` came to
WithId(ran, video_id) ==
    [signals |-> ran.signals, calls |-> ran.calls, files |-> ran.files, video_id |-> video_id]

\* languages=('en',), the default of YouTubeTranscriptApi.get_transcript
DEFAULT_LANGUAGES == <<"en">>

\* YouTubeTranscriptApi.list_transcripts(video_id)
list_transcripts_call(video_id) == Call("list_transcripts", video_id, <<>>)

\* TranscriptListWorker.run after `video_id = self.get_video_id(self.url)`
\* returned video_id: provider is the outcome of list_transcripts ("ok" or
\* the message of what it raised), tracks what it returns
TLW_run_with_id(video_id, provider, tracks) ==
    IF Falsy(video_id)
    THEN Ran(<<Error(NO_VIDEO_ID)>>, <<>>, <<>>)
    ELSE IF provider = "ok"
         THEN Ran(<<FinishedList(tracks)>>, <<list_transcripts_call(video_id.value)>>, <<>>)
         ELSE Ran(<<Error(provider)>>, <<list_transcripts_call(video_id.value)>>, <<>>)

\* TranscriptListWorker.run, once get_video_id has returned or raised
TLW_run_of(video_id, provider, tracks) ==
    IF video_id.kind = "raise"
    THEN Ran(<<Error(video_id.exc)>>, <<>>, <<>>)
    ELSE TLW_run_with_id(video_id, provider, tracks)

\* TranscriptListWorker.run
TLW_run(url, provider, tracks) ==
    At(TLW_get_video_id(url), LAMBDA video_id : TLW_run_of(video_id, provider, tracks))

\* get_video_title, had the except clause let the failure through
get_video_title_raising(video_id, response) ==
    IF response.kind = "value" THEN Value(response.value) ELSE Raise(response.exc)

\* TranscriptWorker.get_video_title: response is the outcome of
\* requests.get(url).json()['title'], a title or whatever was raised
get_video_title(video_id, response) ==
    IF response.kind = "value" THEN Value(response.value) ELSE Value(video_id)

\* get_transcript_call, had the item selected in language_combo been passed on
get_transcript_call_selected(video_id) ==
    Call("get_transcript", video_id, <<job.selection.language>>)

\* YouTubeTranscriptApi.get_transcript(video_id)
get_transcript_call(video_id) == Call("get_transcript", video_id, DEFAULT_LANGUAGES)

\* The entries the provider returns for a request: a function of the request.
Transcript(request) == [video_id |-> request.arg, language |-> request.languages[1]]

\* the formatters dict of TranscriptWorker.run: name -> extension
formatters ==
    [n \in {"JSON", "Pretty Print", "Text", "WebVTT", "SRT"} |->
        CASE n = "JSON"         -> <<"j","s","o","n">>
          [] n = "Pretty Print" -> <<"t","x","t">>
          [] n = "Text"         -> <<"t","x","t">>
          [] n = "WebVTT"       -> <<"v","t","t">>
          [] n = "SRT"          -> <<"s","r","t">>]

\* formatter.format_transcript(transcript): the text depends on the formatter
\* class and on the entries
format_transcript(formatter_name, transcript) ==
    [formatter |-> formatter_name, entries |-> transcript]

\* TranscriptWorker.run from `with open(filename, 'w', ...)` on
TW_run_write(filename, formatted, calls, write) ==
    IF write # "ok"
    THEN Ran(<<Error(write)>>, calls, <<>>)
    ELSE Ran(<<FinishedFile(filename)>>, calls, <<[name |-> filename, content |-> formatted]>>)

\* TranscriptWorker.run from `formatter, ext = formatters[self.formatter_name]` on
TW_run_format(safe_title, formatter_name, transcript, calls, env) ==
    IF formatter_name \notin DOMAIN formatters
    THEN Ran(<<Error("KeyError")>>, calls, <<>>)
    ELSE At(safe_title \o <<".">> \o formatters[formatter_name],
            LAMBDA filename :
                TW_run_write(filename, format_transcript(formatter_name, transcript),
                             Append(calls, Call("open", filename, <<>>)), env.write))

\* TranscriptWorker.run from `transcript = ...get_transcript(video_id)` on
TW_run_transcript(safe_title, request, formatter_name, calls, env) ==
    IF env.transcript # "ok"
    THEN Ran(<<Error(env.transcript)>>, Append(calls, request), <<>>)
    ELSE TW_run_format(safe_title, formatter_name, Transcript(request),
                       Append(calls, request), env)

\* TranscriptWorker.run from `safe_title = self.sanitize_filename(video_title)` on
TW_run_title(video_id, video_title, formatter_name, calls, env) ==
    IF video_title.kind = "raise"
    THEN Ran(<<Error(video_title.exc)>>, calls, <<>>)
    ELSE At(<<sanitize_filename(video_title.value), get_transcript_call(video_id)>>,
            LAMBDA t : TW_run_transcript(t[1], t[2], formatter_name, calls, env))

\* TranscriptWorker.run after the video_id check passed: env holds the
\* outcomes of the title request, of the provider and of the file write
TW_run_fetch(video_id, formatter_name, env) ==
    At(get_video_title(video_id, env.title),
       LAMBDA video_title :
           TW_run_title(video_id, video_title, formatter_name,
                        <<Call("oembed", video_id, <<>>)>>, env))

\* TW_run_with_id, had the `return` after the error been left out
TW_run_with_id_no_return(video_id, formatter_name, env) ==
    IF Falsy(video_id)
    THEN Ran(<<Error(NO_VIDEO_ID)>> \o TW_run_fetch(video_id.value, formatter_name, env).signals,
             TW_run_fetch(video_id.value, formatter_name, env).calls,
             TW_run_fetch(video_id.value, formatter_name, env).files)
    ELSE TW_run_fetch(video_id.value, formatter_name, env)

\* TranscriptWorker.run after `video_id = self.get_video_id(self.url)`
\* returned video_id
TW_run_with_id(video_id, formatter_name, env) ==
    IF Falsy(video_id)
    THEN Ran(<<Error(NO_VIDEO_ID)>>, <<>>, <<>>)
    ELSE TW_run_fetch(video_id.value, formatter_name, env)

\* TranscriptWorker.run, once get_video_id has returned or raised
TW_run_of(video_id, formatter_name, env) ==
    IF video_id.kind = "raise"
    THEN Ran(<<Error(video_id.exc)>>, <<>>, <<>>)
    ELSE TW_run_with_id(video_id, formatter_name, env)

\* TranscriptWorker.run
TW_run(url, formatter_name, env) ==
    At(TW_get_video_id(url), LAMBDA video_id : TW_run_of(video_id, formatter_name, env))

(***************************************************************************)
(* The inputs the model draws from                                         *)
(***************************************************************************)
HTTPS     == <<"h","t","t","p","s",":","/","/">>
WWW_YOUTUBE_COM == <<"w","w","w",".">> \o YOUTUBE_COM
VIMEO_COM == <<"v","i","m","e","o",".","c","o","m">>
ABC       == <<"a","b","c">>

\* what the user may have typed into url_input when a button is clicked
UrlTexts ==
    { <<" ">>,                                      \* blanks only
      HTTPS \o YOUTU_BE \o <<"/">> \o ABC,          \* https://youtu.be/abc
      HTTPS \o VIMEO_COM \o <<"/", "1">> }          \* https://vimeo.com/1

\* the items of formatter_combo
formatter_combo == <<"JSON", "Pretty Print", "Text", "WebVTT", "SRT">>

\* the item of formatter_combo selected in the window's steps (the worker's
\* own steps below run every item)
Choices == {5}

\* TranscriptTrack values the provider may list
Track(language, code, translatable, targets) ==
    [language |-> language, language_code |-> code,
     is_translatable |-> translatable, translation_languages |-> targets]

Lang(language, code) == [language |-> language, language_code |-> code]

TrackLists ==
    { <<Track("English", "en", TRUE, <<Lang("German", "de")>>)>>,
      <<Track("English", "en", FALSE, <<>>),
        Track("German", "de", TRUE, <<Lang("English", "en"), Lang("French", "fr")>>)>> }

\* what list_transcripts / get_transcript may do: return, or raise with a message
ProviderOutcomes == {"ok", "TranscriptsDisabled"}

\* what open(filename, 'w') and file.write may do
WriteOutcomes == {"ok", "OSError"}

\* a title with characters of invalid_chars in it:  a:b/c?
TITLE_1 == <<"a", ":", "b", "/", "c", "?">>

\* what requests.get(url).json()['title'] may do
TitleOutcomes == { Value(TITLE_1), Raise("ConnectionError") }

Envs ==
    [title : TitleOutcomes, transcript : ProviderOutcomes, write : WriteOutcomes]

(***************************************************************************)
(* MainWindow and the worker threads                                       *)
(***************************************************************************)
\* the most threads in flight the model follows
MaxWorkers == 2

\* the most open dialogs the model counts
MaxDialogs == 2

\* self.transcript_list = None
NoTranscriptList == [is_none |-> TRUE, tracks |-> <<>>]

\* self.transcript_list = transcript_list
TranscriptList(tracks) == [is_none |-> FALSE, tracks |-> tracks]

Label(text, filename) == [text |-> text, filename |-> filename]

NoJob == [kind |-> "none"]

\* TranscriptListWorker(url), started
TranscriptListWorker(url) == [url |-> url, running |-> TRUE, signals |-> <<>>]

\* TranscriptWorker(url, formatter_name), started
TranscriptWorker(url, formatter_name) ==
    [url |-> url, formatter_name |-> formatter_name, running |-> TRUE, signals |-> <<>>]

InFlight == BagCardinality(list_worker) + BagCardinality(worker)

\* a bag with one thread replaced by its next state, or dropped when the
\* thread has run and none of its signals is left to deliver
Replace(bag, old, new) ==
    IF ~new.running /\ new.signals = <<>>
    THEN bag (-) SetToBag({old})
    ELSE (bag (-) SetToBag({old})) (+) SetToBag({new})

\* QMessageBox.warning / information / critical: one more modal dialog.  The
\* count stops at MaxDialogs; the states with no dialog open are the same,
\* since a dialog can always be closed and closing changes nothing else.
OpenDialog == IF dialogs < MaxDialogs THEN dialogs + 1 ELSE dialogs

\* MainWindow.__init__
MainWindow_init ==
    /\ check_button = TRUE
    /\ convert_button = FALSE
    /\ status_label = Label("", <<>>)
    /\ transcript_list = NoTranscriptList
    /\ language_combo = <<>>
    /\ translation_combo = <<>>
    /\ dialogs = 0
    /\ list_worker = EmptyBag
    /\ worker = EmptyBag

\* MainWindow.check_transcripts, on a click of check_button
check_transcripts(text) ==
    LET url == Strip(text)
    IN  IF url = <<>>
        THEN /\ dialogs' = OpenDialog
             /\ UNCHANGED <<check_button, convert_button, status_label, transcript_list,
                            language_combo, translation_combo, list_worker, worker>>
        ELSE /\ InFlight < MaxWorkers
             /\ check_button' = FALSE
             /\ status_label' = Label("Checking available transcripts...", <<>>)
             /\ language_combo' = <<>>
             /\ translation_combo' = <<>>
             /\ list_worker' = list_worker (+) SetToBag({TranscriptListWorker(url)})
             /\ UNCHANGED <<convert_button, transcript_list, dialogs, worker>>

\* MainWindow.start_conversion, on a click of convert_button
start_conversion(text, formatter_name) ==
    LET url == Strip(text)
    IN  /\ InFlight < MaxWorkers
        /\ convert_button' = FALSE
        /\ status_label' = Label("Obtaining transcript...", <<>>)
        /\ worker' = worker (+) SetToBag({TranscriptWorker(url, formatter_name)})
        /\ UNCHANGED <<check_button, transcript_list, language_combo, translation_combo,
                       dialogs, list_worker>>

\* f"{language} ({language_code})"
Item(l) == <<l.language, " (", l.language_code, ")">>

\* the items on_transcript_list_received adds to language_combo
LanguageItems(list) == [i \in 1..Len(list) |-> Item(list[i])]

\* the items on_transcript_list_received adds to translation_combo
RECURSIVE TranslationItems(_)
TranslationItems(list) ==
    IF list = <<>> THEN <<>>
    ELSE LET transcript == Head(list)
             mine == IF transcript.is_translatable
                     THEN [i \in 1..Len(transcript.translation_languages) |->
                              Item(transcript.translation_languages[i])]
                     ELSE <<>>
         IN  mine \o TranslationItems(Tail(list))

\* MainWindow.on_transcript_list_received
on_transcript_list_received(list) ==
    /\ transcript_list' = TranscriptList(list)
    /\ language_combo' = LanguageItems(list)
    /\ translation_combo' = TranslationItems(list)
    /\ convert_button' = TRUE
    /\ check_button' = TRUE
    /\ status_label' = Label("Ready to convert", <<>>)
    /\ UNCHANGED dialogs

\* MainWindow.on_conversion_finished
on_conversion_finished(filename) ==
    /\ status_label' = Label("Saved as: ", filename)
    /\ convert_button' = TRUE
    /\ dialogs' = OpenDialog
    /\ UNCHANGED <<check_button, transcript_list, language_combo, translation_combo>>

\* on_error, had it left check_button as it was
on_error_keeps_check(error_message) ==
    /\ status_label' = Label("Error occurred", <<>>)
    /\ convert_button' = FALSE
    /\ dialogs' = OpenDialog
    /\ UNCHANGED <<check_button, transcript_list, language_combo, translation_combo>>

\* on_error, had it enabled convert_button
on_error_enables_convert(error_message) ==
    /\ status_label' = Label("Error occurred", <<>>)
    /\ check_button' = TRUE
    /\ convert_button' = TRUE
    /\ dialogs' = OpenDialog
    /\ UNCHANGED <<transcript_list, language_combo, translation_combo>>

\* MainWindow.on_error
on_error(error_message) ==
    /\ status_label' = Label("Error occurred", <<>>)
    /\ check_button' = TRUE
    /\ convert_button' = FALSE
    /\ dialogs' = OpenDialog
    /\ UNCHANGED <<transcript_list, language_combo, translation_combo>>

(***************************************************************************)
(* The steps of the program                                                *)
(***************************************************************************)
\* the user clicks check_button: possible when it is enabled and no modal
\* dialog is open
ClickCheck ==
    /\ check_button
    /\ dialogs = 0
    /\ \E text \in UrlTexts : check_transcripts(text)
    /\ UNCHANGED <<job, out>>

\* the user clicks convert_button
ClickConvert ==
    /\ convert_button
    /\ dialogs = 0
    /\ \E text \in UrlTexts, i \in Choices :
          start_conversion(text, formatter_combo[i])
    /\ UNCHANGED <<job, out>>

\* the user closes the topmost dialog
CloseDialog ==
    /\ dialogs > 0
    /\ dialogs' = dialogs - 1
    /\ UNCHANGED <<check_button, convert_button, status_label, transcript_list,
                   language_combo, translation_combo, list_worker, worker, job, out>>

\* a TranscriptListWorker thread runs run() to its end
RunListWorker ==
    \E w \in BagToSet(list_worker), provider \in ProviderOutcomes, tracks \in TrackLists :
        /\ w.running
        /\ list_worker' = Replace(list_worker, w,
              [w EXCEPT !.running = FALSE, !.signals = TLW_run(w.url, provider, tracks).signals])
        /\ UNCHANGED <<check_button, convert_button, status_label, transcript_list,
                       language_combo, translation_combo, dialogs, worker, job, out>>

\* a TranscriptWorker thread runs run() to its end
RunWorker ==
    \E w \in BagToSet(worker), env \in Envs :
        /\ w.running
        /\ worker' = Replace(worker, w,
              [w EXCEPT !.running = FALSE,
                        !.signals = TW_run(w.url, w.formatter_name, env).signals])
        /\ UNCHANGED <<check_button, convert_button, status_label, transcript_list,
                       language_combo, translation_combo, dialogs, list_worker, job, out>>

\* the event loop delivers the next signal of a TranscriptListWorker to the
\* slot connected to it
DeliverListSignal ==
    \E w \in BagToSet(list_worker) :
        /\ ~w.running
        /\ w.signals # <<>>
        /\ IF Head(w.signals).signal = "finished"
           THEN on_transcript_list_received(Head(w.signals).transcript_list)
           ELSE on_error(Head(w.signals).message)
        /\ list_worker' = Replace(list_worker, w, [w EXCEPT !.signals = Tail(w.signals)])
        /\ UNCHANGED <<worker, job, out>>

\* the event loop delivers the next signal of a TranscriptWorker
DeliverWorkerSignal ==
    \E w \in BagToSet(worker) :
        /\ ~w.running
        /\ w.signals # <<>>
        /\ IF Head(w.signals).signal = "finished"
           THEN on_conversion_finished(Head(w.signals).filename)
           ELSE on_error(Head(w.signals).message)
        /\ worker' = Replace(worker, w, [w EXCEPT !.signals = Tail(w.signals)])
        /\ UNCHANGED <<list_worker, job, out>>

Init ==
    /\ MainWindow_init
    /\ job = NoJob
    /\ out = <<>>

Next ==
    \/ ClickCheck
    \/ ClickConvert
    \/ CloseDialog
    \/ RunListWorker
    \/ RunWorker
    \/ DeliverListSignal
    \/ DeliverWorkerSignal

Spec == Init /\ [][Next]_vars

\* Threads are scheduled and queued signals are delivered: a worker that can
\* run does, and a signal that is waiting reaches its slot.
FairSpec ==
    /\ Spec
    /\ WF_vars(RunListWorker)
    /\ WF_vars(RunWorker)
    /\ WF_vars(DeliverListSignal)
    /\ WF_vars(DeliverWorkerSignal)

(***************************************************************************)
(* A worker run on its own.  run() reads nothing of the window and shares  *)
(* nothing with other threads, so what it does is a function of the        *)
(* arguments start_conversion / check_transcripts construct it with and of *)
(* what the outside world answers.  job holds both, for a wide set of      *)
(* URLs; out collects what each run of the job did.                        *)
(***************************************************************************)
HOSTS == { YOUTU_BE, WWW_YOUTUBE_COM, VIMEO_COM, <<"[">> \o YOUTU_BE }

PATHS ==
    { <<>>,
      <<"/">>,
      <<"/">> \o ABC,
      <<"/">> \o ABC \o <<"/", "d">>,
      <<"/", "w", "a", "t", "c", "h">>,
      <<"/">> \o SHORTS \o <<"/">> \o ABC,
      <<"/">> \o SHORTS \o <<"/">> }

QUERIES ==
    { <<>>,
      <<"?", "v", "=">> \o ABC,
      <<"?", "v", "=">>,
      <<"?", "t", "=", "5", "&", "v", "=">> \o ABC \o <<"&", "v", "=", "z">>,
      <<"?", "v", "=", "a", "%", "3", "A", "b">> }

Urls == { HTTPS \o h \o p \o q : h \in HOSTS, p \in PATHS, q \in QUERIES }

\* url_input.text(): a URL, one with blanks around it, or one with no scheme
Texts ==
    Urls \cup { <<" ">> \o HTTPS \o YOUTU_BE \o <<"/">> \o ABC \o <<" ">>,
                YOUTU_BE \o <<"/">> \o ABC }

\* a title longer than the file name may be
TITLE_2 == [i \in 1..(FilenameLimit + 2) |-> IF i % 2 = 0 THEN "x" ELSE "|"] \o ABC

JobTitleOutcomes ==
    { Value(TITLE_2), Raise("ConnectionError"), Raise("KeyError") }

JobEnvs ==
    [title : JobTitleOutcomes, transcript : ProviderOutcomes, write : WriteOutcomes]

\* the current items of language_combo and translation_combo
Selections == [language : {"en", "de"}, translation : {"", "fr"}]

\* the selection when the window has just filled the lists
FirstSelection == [language |-> "en", translation |-> ""]

ListJobs ==
    [kind : {"list"}, text : Texts, provider : ProviderOutcomes, tracks : TrackLists]

ConvertJobs ==
    [kind : {"convert"}, text : Texts, formatter_name : {formatter_combo[i] : i \in 1..Len(formatter_combo)},
     selection : {FirstSelection}, env : JobEnvs]

JobInit ==
    /\ MainWindow_init
    /\ out = <<>>
    /\ \/ job \in ListJobs
       \/ job \in ConvertJobs

\* run() of a TranscriptListWorker whose get_video_id came to video_id
TLW_job(video_id, provider, tracks) == WithId(TLW_run_of(video_id, provider, tracks), video_id)

\* run() of the TranscriptWorker w
TW_job_of(video_id, formatter_name, env) ==
    WithId(TW_run_of(video_id, formatter_name, env), video_id)

TW_job(w, env) ==
    At(TW_get_video_id(w.url), LAMBDA video_id : TW_job_of(video_id, w.formatter_name, env))

\* check_transcripts constructs the worker from the text, and the thread runs
RunListJob ==
    /\ job.kind = "list"
    /\ out = <<>>
    /\ Strip(job.text) # <<>>
    /\ out' = <<At(TLW_get_video_id(Strip(job.text)),
                   LAMBDA video_id : TLW_job(video_id, job.provider, job.tracks))>>
    /\ UNCHANGED <<job, window>>

\* start_conversion constructs the worker from the text and the current
\* formatter, and the thread runs; a second run follows a change of selection
RunConvertJob ==
    /\ job.kind = "convert"
    /\ \/ out = <<>>
       \/ Len(out) = 1 /\ job.selection # FirstSelection
    /\ out' = Append(out, TW_job(TranscriptWorker(Strip(job.text), job.formatter_name), job.env))
    /\ UNCHANGED <<job, window>>

\* the user picks other items in language_combo and translation_combo
SelectLanguage ==
    /\ job.kind = "convert"
    /\ Len(out) = 1
    /\ job.selection = FirstSelection
    /\ \E sel \in Selections \ {FirstSelection} : job' = [job EXCEPT !.selection = sel]
    /\ UNCHANGED <<out, window>>

JobNext ==
    \/ RunListJob
    \/ RunConvertJob
    \/ SelectLanguage

SpecRun == JobInit /\ [][JobNext]_vars

(***************************************************************************)
(* sanitize_filename on its own, over titles of the form c^n t: a run of n *)
(* copies of one character followed by a short tail.                       *)
(***************************************************************************)
\* the longest run of one character in a title
MaxPad == 51

\* the longest tail of a title
MaxTail == 2

PadChars == {"a"} \cup {invalid_chars[i] : i \in 1..Len(invalid_chars)}

TailChars == {"a", "b", "<"}

Tails == UNION { [1..n -> TailChars] : n \in 0..MaxTail }

Titles == { [i \in 1..n |-> c] \o t : n \in 0..MaxPad, c \in PadChars, t \in Tails }

SanitizeInit ==
    /\ MainWindow_init
    /\ out = <<>>
    /\ job \in [kind : {"sanitize"}, title : Titles]

Sanitize ==
    /\ job.kind = "sanitize"
    /\ out = <<>>
    /\ out' = <<sanitize_filename(job.title)>>
    /\ UNCHANGED <<job, window>>

SanitizeNext == Sanitize

SpecSanitize == SanitizeInit /\ [][SanitizeNext]_vars

(***************************************************************************)
(* The claims                                                              *)
(***************************************************************************)

\* C1: at most one TranscriptListWorker and at most one TranscriptWorker is
\* in flight (running, or with a signal not yet delivered) in every
\* reachable state.
C1_AtMostOneOfEachKind ==
    /\ BagCardinality(list_worker) <= 1
    /\ BagCardinality(worker) <= 1

\* the step in which the error signal of a TranscriptListWorker is handled
ListErrorHandled ==
    \E w \in BagToSet(list_worker) :
        /\ ~w.running
        /\ w.signals # <<>>
        /\ Head(w.signals).signal = "error"
        /\ list_worker' = Replace(list_worker, w, [w EXCEPT !.signals = Tail(w.signals)])
        /\ worker' = worker

\* the step in which the error signal of a TranscriptWorker is handled
WorkerErrorHandled ==
    \E w \in BagToSet(worker) :
        /\ ~w.running
        /\ w.signals # <<>>
        /\ Head(w.signals).signal = "error"
        /\ worker' = Replace(worker, w, [w EXCEPT !.signals = Tail(w.signals)])
        /\ list_worker' = list_worker

\* C2: handling a worker's error re-enables the action that started the
\* worker: check_button after a TranscriptListWorker error, convert_button
\* after a TranscriptWorker error.
C2_ErrorReenablesTrigger ==
    [][ /\ ListErrorHandled => check_button'
        /\ WorkerErrorHandled => convert_button' ]_vars

\* a terminal event: finished with its payload, or error with a message
Terminal(sig) ==
    \/ /\ sig.signal = "finished"
       /\ sig.message = ""
       /\ (sig.filename # <<>>) # (sig.transcript_list # <<>>)
    \/ /\ sig.signal = "error"
       /\ sig.message # ""
       /\ sig.filename = <<>>
       /\ sig.transcript_list = <<>>

\* C3: every run of a worker emits exactly one signal, a finished with a
\* payload or an error with a message, whichever step fails.
C3_OneTerminalEvent ==
    \A i \in 1..Len(out) :
        /\ Len(out[i].signals) = 1
        /\ Terminal(out[i].signals[1])

\* a TranscriptWorker run that failed at the file write has emitted its one error
C3_Witness ==
    /\ job.kind = "convert"
    /\ Len(out) >= 1
    /\ out[1].calls # <<>>
    /\ out[1].signals = <<Error("OSError")>>

\* the part of a file name before its extension
Stem(filename) == SliceTo(filename, RFind(filename, "."))

\* the characters sanitize_filename removes, as the claims list them
Forbidden == {"<", ">", ":", "\"", "/", "\\", "|", "?", "*"}

\* the positions of s that hold no forbidden character
Kept(s) == {i \in 1..Len(s) : s[i] \notin Forbidden}

\* r is s without its forbidden characters, the others in their order, cut
\* to its first 50 characters: the n-th character kept is the n-th of r, for
\* n up to 50, and r holds nothing else
IsCleaned(r, s) ==
    /\ Len(r) = Min(50, Cardinality(Kept(s)))
    /\ \A i \in Kept(s) :
          LET n == Cardinality({j \in Kept(s) : j <= i})
          IN  n <= 50 => r[n] = s[i]

\* run i of a convert job: the title request failed, a VideoID was extracted,
\* the provider fetch and the file write succeed
TitleFailedRun(i) ==
    /\ job.kind = "convert"
    /\ i \in 1..Len(out)
    /\ job.env.title.kind = "raise"
    /\ job.env.transcript = "ok"
    /\ job.env.write = "ok"
    /\ out[i].video_id.kind = "value"
    /\ out[i].video_id.value # <<>>

\* C4 as claimed: such a run ends with finished and the written file's name
\* stem is the VideoID.
C4_StemIsVideoId ==
    \A i \in 1..Len(out) :
        TitleFailedRun(i) =>
            /\ out[i].signals = <<FinishedFile(out[i].files[1].name)>>
            /\ Stem(out[i].files[1].name) = out[i].video_id.value

\* C4 as amended: such a run ends with finished and the written file's name
\* stem is the VideoID without the forbidden characters, cut to 50
\* characters; it is the VideoID itself when that has no forbidden character
\* and at most 50 characters.
C4_StemIsSanitizedVideoId ==
    \A i \in 1..Len(out) :
        TitleFailedRun(i) =>
            /\ Len(out[i].files) = 1
            /\ out[i].signals = <<FinishedFile(out[i].files[1].name)>>
            /\ IsCleaned(Stem(out[i].files[1].name), out[i].video_id.value)
            /\ (/\ Len(out[i].video_id.value) <= 50
                /\ \A k \in 1..Len(out[i].video_id.value) : out[i].video_id.value[k] \notin Forbidden)
               => Stem(out[i].files[1].name) = out[i].video_id.value

\* a run whose title request failed wrote a file named after a VideoID that
\* holds a forbidden character
C4_Witness ==
    \E i \in 1..Len(out) :
        /\ TitleFailedRun(i)
        /\ out[i].files # <<>>
        /\ \E k \in 1..Len(out[i].video_id.value) : out[i].video_id.value[k] \in Forbidden

\* the text after the last separator of a path
FinalSegment(path) == SubSeq(path, RFind(path, "/") + 2, Len(path))

\* the fields of a query, in order: those of the form name=value with a
\* non-empty value, name and value decoded
RECURSIVE Fields(_)
Fields(query) ==
    IF query = <<>> THEN <<>>
    ELSE LET amp   == Find(query, "&")
             field == IF amp < 0 THEN query ELSE SubSeq(query, 1, amp)
             rest  == IF amp < 0 THEN <<>> ELSE SubSeq(query, amp + 2, Len(query))
             eq    == Find(field, "=")
         IN  IF eq >= 0 /\ eq + 1 < Len(field)
             THEN <<<<unquote(PlusToSpace(SubSeq(field, 1, eq))),
                      unquote(PlusToSpace(SubSeq(field, eq + 2, Len(field))))>>>> \o Fields(rest)
             ELSE Fields(rest)

\* the reference decision order of the Video-ID Extractor on a parsed URL
Reference(host, path, query) ==
    IF Contains(host, YOUTU_BE)
    THEN Value(IF path = <<>> THEN <<>> ELSE Tail(path))
    ELSE IF Contains(host, YOUTUBE_COM)
    THEN IF Contains(path, SHORTS)
         THEN Value(FinalSegment(path))
         ELSE IF \E k \in 1..Len(Fields(query)) : Fields(query)[k][1] = <<"v">>
              THEN Value(Fields(query)[Least({k \in 1..Len(Fields(query)) :
                                                Fields(query)[k][1] = <<"v">>})][2])
              ELSE Raise("'v'")
    ELSE None

\* C5: on every URL that parses, get_video_id of either worker returns what
\* the reference decision order gives (the first value of v, a KeyError when
\* there is none), and on any other host it returns no VideoID and the worker
\* reports an error without a call to the provider.
C5_ExtractorFollowsReference ==
    \A i \in 1..Len(out) :
        LET parsed_url == urlparse(Strip(job.text))
        IN  ~parsed_url.raised =>
              /\ out[i].video_id = Reference(parsed_url.netloc, parsed_url.path, parsed_url.query)
              /\ (~Contains(parsed_url.netloc, YOUTU_BE) /\ ~Contains(parsed_url.netloc, YOUTUBE_COM))
                 => /\ out[i].video_id = None
                    /\ out[i].signals = <<Error(NO_VIDEO_ID)>>
                    /\ out[i].calls = <<>>

\* a TranscriptWorker has run on a URL of another host
C5_Witness ==
    /\ job.kind = "convert"
    /\ Contains(job.text, VIMEO_COM)
    /\ Len(out) >= 1
    /\ out[1].video_id = None
    /\ out[1].signals = <<Error(NO_VIDEO_ID)>>

\* the URLs of C6: a short link whose path is empty once the leading
\* separator is gone, or a shorts URL that ends in a separator
EmptyIdUrl(parsed_url) ==
    /\ ~parsed_url.raised
    /\ \/ /\ Contains(parsed_url.netloc, YOUTU_BE)
          /\ Len(parsed_url.path) <= 1
       \/ /\ ~Contains(parsed_url.netloc, YOUTU_BE)
          /\ Contains(parsed_url.netloc, YOUTUBE_COM)
          /\ Contains(parsed_url.path, SHORTS)
          /\ parsed_url.path[Len(parsed_url.path)] = "/"

\* C6 as claimed: on such a URL the extractor yields the empty VideoID and
\* the worker goes on to the provider call.
C6_EmptyIdReachesProvider ==
    \A i \in 1..Len(out) :
        EmptyIdUrl(urlparse(Strip(job.text))) =>
            /\ out[i].video_id = Value(<<>>)
            /\ \E k \in 1..Len(out[i].calls) :
                  out[i].calls[k].api \in {"list_transcripts", "get_transcript"}

\* C6 as amended: on such a URL the extractor yields the empty VideoID, and
\* the worker rejects it at its own check: it emits the one error "Could not
\* extract video ID from URL" and makes no call at all.
C6_EmptyIdRejectedByWorker ==
    \A i \in 1..Len(out) :
        EmptyIdUrl(urlparse(Strip(job.text))) =>
            /\ out[i].video_id = Value(<<>>)
            /\ out[i].signals = <<Error(NO_VIDEO_ID)>>
            /\ out[i].calls = <<>>

\* a worker has run on https://youtu.be/
C6_Witness ==
    /\ job.text = HTTPS \o YOUTU_BE \o <<"/">>
    /\ Len(out) >= 1
    /\ out[1].video_id = Value(<<>>)

\* C7: two runs of start_conversion with the same URL and output format and
\* the same answers of the outside world, under different selections in
\* language_combo and translation_combo, make the same calls (the provider
\* request for the default language among them), write the same file name
\* and content and emit the same signal.
C7_SelectionIgnored ==
    /\ Len(out) = 2 =>
          /\ out[1].calls = out[2].calls
          /\ out[1].files = out[2].files
          /\ out[1].signals = out[2].signals
    /\ \A i \in 1..Len(out) : \A k \in 1..Len(out[i].calls) :
          out[i].calls[k].api = "get_transcript" => out[i].calls[k].languages = DEFAULT_LANGUAGES

\* a second run, under another language, has written its file
C7_Witness ==
    /\ Len(out) = 2
    /\ job.selection.language # FirstSelection.language
    /\ out[2].files # <<>>

\* C8: sanitize_filename(T) has at most 50 characters, none of them
\* forbidden, and is T without the forbidden characters (the others in their
\* order) cut to its first 50 characters: the cut comes after the removal.
C8_Sanitize ==
    (job.kind = "sanitize" /\ out # <<>>) =>
        /\ Len(out[1]) <= 50
        /\ \A k \in 1..Len(out[1]) : out[1][k] \notin Forbidden
        /\ IsCleaned(out[1], job.title)

\* a title of more than 50 characters, forbidden ones among the first 50, of
\* which 50 are kept
C8_Witness ==
    /\ job.kind = "sanitize"
    /\ out # <<>>
    /\ Len(job.title) > 50
    /\ \E k \in 1..50 : job.title[k] \in Forbidden
    /\ Len(out[1]) = 50

\* C9: convert_button is enabled only after a TranscriptListWorker's
\* finished signal was handled (self.transcript_list is set by that handler
\* alone), and a TranscriptWorker is started only then.
C9_ConvertGated ==
    /\ [](convert_button => transcript_list # NoTranscriptList)
    /\ [][BagCardinality(worker') > BagCardinality(worker)
          => transcript_list # NoTranscriptList]_vars

\* a TranscriptWorker is in flight
C9_Witness ==
    /\ worker # EmptyBag
    /\ transcript_list # NoTranscriptList

\* C10: with no TranscriptListWorker in flight check_button is enabled, so
\* the window is never left with both buttons disabled and nothing in flight;
\* and when threads run and signals are delivered, a disabled check_button is
\* enabled again.
C10_NeverStuck ==
    /\ [](list_worker = EmptyBag => check_button)
    /\ [](InFlight = 0 => (check_button \/ convert_button))
    /\ (~check_button ~> check_button)

\* a TranscriptListWorker's error has been handled and none is in flight
C10_Witness ==
    /\ list_worker = EmptyBag
    /\ status_label = Label("Error occurred", <<>>)
    /\ transcript_list = NoTranscriptList
    /\ check_button

====
